---- MODULE Spec2Model ----
(***************************************************************************)
(* Model of NojimaPriceMonitor (src/main.py): the price/name extraction    *)
(* heuristic, the JSON-persisted price history and the poll loop of        *)
(* monitor(), with process crashes and restarts.                           *)
(***************************************************************************)
EXTENDS Integers, Sequences, FiniteSets, TLC

(***************************************************************************)
(* Bounds of the model.                                                    *)
(***************************************************************************)
\* number of fetches (datetime.now() readings) explored
MaxClock == 5
\* number of process crashes explored
MaxCrashes == 1

(***************************************************************************)
(* Program constants.                                                      *)
(***************************************************************************)
MinPrice == 100
MaxPrice == 10000000
ShortDelay == 3
DefaultInterval == 300

\* Python's None where a record is expected
None == [none |-> TRUE]

\* extract_price returning None
NoPrice == -1

\* int() raising ValueError
ValueError == -2

(***************************************************************************)
(* Text is a sequence of characters, each a string.  Characters outside   *)
(* ASCII are written by name: "YENSIGN" (the yen sign, either width),      *)
(* "YEN" (the yen unit character), "FWBAR" (the full-width bar), "NO",     *)
(* "JI", "MA" (the three characters of the site name).                     *)
(***************************************************************************)
Digits == <<"0", "1", "2", "3", "4", "5", "6", "7", "8", "9">>

DigitSet == {Digits[i] : i \in 1..10}

DigitVal(c) == (CHOOSE i \in 1..10 : Digits[i] = c) - 1

\* the character class [0-9,]
NumChar(c) == c \in DigitSet \cup {","}

\* the character class \s
Space(c) == c \in {" ", "\n"}

SeqRange(s) == {s[i] : i \in 1..Len(s)}

\* str.replace(',', '')
RECURSIVE RemoveCommas(_)
RemoveCommas(s) ==
  IF s = <<>> THEN <<>>
  ELSE IF Head(s) = "," THEN RemoveCommas(Tail(s))
       ELSE <<Head(s)>> \o RemoveCommas(Tail(s))

\* int(str) of a string of decimal digits; ValueError for the empty string
RECURSIVE DigitsToInt(_)
DigitsToInt(s) ==
  IF Len(s) = 1 THEN DigitVal(s[1])
  ELSE 10 * DigitsToInt(SubSeq(s, 1, Len(s) - 1)) + DigitVal(s[Len(s)])

ParseInt(s) == IF s = <<>> THEN ValueError ELSE DigitsToInt(s)

\* str(int) for a non-negative integer, as json.dump writes it
RECURSIVE IntToDigits(_)
IntToDigits(n) ==
  IF n < 10 THEN <<Digits[n + 1]>>
  ELSE IntToDigits(n \div 10) \o <<Digits[(n % 10) + 1]>>

\* str.strip()
RECURSIVE LStrip(_)
LStrip(s) == IF s # <<>> /\ Space(Head(s)) THEN LStrip(Tail(s)) ELSE s

RECURSIVE RStrip(_)
RStrip(s) ==
  IF s # <<>> /\ Space(s[Len(s)]) THEN RStrip(SubSeq(s, 1, Len(s) - 1)) ELSE s

Strip(s) == RStrip(LStrip(s))

(***************************************************************************)
(* extract_price.  A document is a sequence of elements                    *)
(* [tag, attr, val, text]: one attribute name with its value, and the      *)
(* element's own text.                                                     *)
(***************************************************************************)
\* end of the maximal run of [0-9,] that starts at position i
RECURSIVE RunEnd(_, _)
RunEnd(s, i) == IF i < Len(s) /\ NumChar(s[i + 1]) THEN RunEnd(s, i + 1) ELSE i

\* group(1) of re.search(r'[¥￥]?\s*([0-9,]+)\s*円?', text): the first maximal
\* run of [0-9,], or the empty text when there is no match
SearchPrice(text) ==
  IF \E i \in 1..Len(text) : NumChar(text[i])
  THEN LET i == CHOOSE k \in 1..Len(text) :
                  NumChar(text[k]) /\ \A j \in 1..(k - 1) : ~NumChar(text[j])
       IN SubSeq(text, i, RunEnd(text, i))
  ELSE <<>>

\* position after the optional whitespace that starts at position i
RECURSIVE SkipSpace(_, _)
SkipSpace(s, i) == IF i <= Len(s) /\ Space(s[i]) THEN SkipSpace(s, i + 1) ELSE i

\* re.findall(r'[¥￥]?\s*([0-9,]{3,})\s*円', text) scanning from position i:
\* the maximal runs of at least three [0-9,] followed by \s*円, in order
RECURSIVE FindAllPrices(_, _)
FindAllPrices(s, i) ==
  IF i > Len(s) THEN <<>>
  ELSE IF ~NumChar(s[i]) THEN FindAllPrices(s, i + 1)
  ELSE LET e == RunEnd(s, i)
           y == SkipSpace(s, e + 1)
       IN IF e - i + 1 >= 3 /\ y <= Len(s) /\ s[y] = "YEN"
          THEN <<SubSeq(s, i, e)>> \o FindAllPrices(s, y + 1)
          ELSE FindAllPrices(s, e + 1)

\* attribute values matched by re.compile(r'.*price.*', re.I)
PriceValues == {"price", "sale-Price"}
\* attribute values matched by re.compile(r'.*value.*', re.I)
ValueValues == {"value"}

\* the three attrs filters of price_patterns; the key of an attrs dict is
\* the attribute's name as written, so the first two ask for "class_"
price_patterns == <<
  [attr |-> "class_", vals |-> PriceValues],
  [attr |-> "class_", vals |-> ValueValues],
  [attr |-> "itemprop", vals |-> {"price"}] >>

\* soup.find_all(attrs=pattern): the matching elements in document order
find_all(html, pattern) ==
  SelectSeq(html, LAMBDA el : el.attr = pattern.attr /\ el.val \in pattern.vals)

\* soup.get_text()
RECURSIVE get_text(_)
get_text(html) == IF html = <<>> THEN <<>> ELSE Head(html).text \o get_text(Tail(html))

\* the range test without its upper limit
InRangeNoUpper(price) == MinPrice <= price

\* the range test of lines 51 and 60
InRange(price) == MinPrice <= price /\ price <= MaxPrice

\* lines 44-54 over the elements of one pattern
RECURSIVE ScanElements(_)
ScanElements(elements) ==
  IF elements = <<>> THEN NoPrice
  ELSE LET price_match == SearchPrice(Head(elements).text)
           price == ParseInt(RemoveCommas(price_match))
       IN IF price_match # <<>> /\ price # ValueError /\ InRange(price) THEN price
          ELSE ScanElements(Tail(elements))

\* lines 42-54 over the patterns from the k-th on
RECURSIVE ScanPatterns(_, _)
ScanPatterns(html, k) ==
  IF k > Len(price_patterns) THEN NoPrice
  ELSE LET r == ScanElements(find_all(html, price_patterns[k]))
       IN IF r # NoPrice THEN r ELSE ScanPatterns(html, k + 1)

\* lines 57-63
RECURSIVE ScanFallback(_)
ScanFallback(prices) ==
  IF prices = <<>> THEN NoPrice
  ELSE LET price == ParseInt(RemoveCommas(Head(prices)))
       IN IF price # ValueError /\ InRange(price) THEN price
          ELSE ScanFallback(Tail(prices))

extract_price(html) ==
  LET r == ScanPatterns(html, 1)
  IN IF r # NoPrice THEN r ELSE ScanFallback(FindAllPrices(get_text(html), 1))

(***************************************************************************)
(* extract_product_name                                                    *)
(***************************************************************************)
\* the five characters of the fallback name of line 77
UnknownName == <<"SHO", "HIN", "MEI", "FU", "MEI">>

\* re.sub(r'[\|｜].*$', '', text)
CutAtBar(s) ==
  IF \E i \in 1..Len(s) : s[i] \in {"|", "FWBAR"}
  THEN LET i == CHOOSE k \in 1..Len(s) :
                  s[k] \in {"|", "FWBAR"} /\ \A j \in 1..(k - 1) : s[j] \notin {"|", "FWBAR"}
       IN SubSeq(s, 1, i - 1)
  ELSE s

\* does r'\s*-\s*ノジマ' match with its hyphen at position i
SiteSuffixAt(s, i) ==
  /\ s[i] = "-"
  /\ LET k == SkipSpace(s, i + 1)
     IN k + 2 <= Len(s) /\ SubSeq(s, k, k + 2) = <<"NO", "JI", "MA">>

\* re.sub(r'\s*-\s*ノジマ.*$', '', text) followed by strip(): the text before
\* the first matching hyphen, without the whitespace in front of it
CutSiteSuffix(s) ==
  IF \E i \in 1..Len(s) : SiteSuffixAt(s, i)
  THEN LET i == CHOOSE k \in 1..Len(s) :
                  SiteSuffixAt(s, k) /\ \A j \in 1..(k - 1) : ~SiteSuffixAt(s, j)
       IN Strip(SubSeq(s, 1, i - 1))
  ELSE Strip(s)

\* soup.find(tag), and soup.find('h2', class_=re.compile(r'.*product.*', re.I))
ProductValues == {"product", "Product-name"}

FindTag(html, tag) ==
  LET m == SelectSeq(html, LAMBDA el : el.tag = tag)
  IN IF m = <<>> THEN None ELSE Head(m)

FindProductH2(html) ==
  LET m == SelectSeq(html, LAMBDA el :
             el.tag = "h2" /\ el.attr = "class" /\ el.val \in ProductValues)
  IN IF m = <<>> THEN None ELSE Head(m)

RECURSIVE FirstName(_)
FirstName(patterns) ==
  IF patterns = <<>> THEN UnknownName
  ELSE LET element == Head(patterns)
           text == IF element = None THEN <<>>
                   ELSE CutSiteSuffix(CutAtBar(Strip(element.text)))
       IN IF element # None /\ text # <<>> /\ Len(text) > 3 THEN text
          ELSE FirstName(Tail(patterns))

extract_product_name(html) ==
  FirstName(<<FindTag(html, "h1"), FindProductH2(html), FindTag(html, "title")>>)

(***************************************************************************)
(* The pages the monitored site can answer with.                           *)
(***************************************************************************)
El(tag, attr, val, text) == [tag |-> tag, attr |-> attr, val |-> val, text |-> text]

\* <h1>TV55</h1><span itemprop="price">YENSIGN 1,000 YEN</span>
Page1000 == <<
  El("h1", "", "", <<"T", "V", "5", "5">>),
  El("span", "itemprop", "price", <<"YENSIGN", "1", ",", "0", "0", "0", "YEN">>) >>

\* <title>55"TV | shop</title><span itemprop="price">800</span>
Page800 == <<
  El("title", "", "", <<"5", "5", "\"", "T", "V", " ", "|", " ", "s", "h", "o", "p">>),
  El("span", "itemprop", "price", <<"8", "0", "0">>) >>

\* <h2 class="product">TV55 - NOJIMA online</h2><div class="price">1,200 YEN</div>
Page1200 == <<
  El("h2", "class", "product", <<"T", "V", "5", "5", " ", "-", " ", "NO", "JI", "MA", " ", "o">>),
  El("div", "class", "price", <<"1", ",", "2", "0", "0", " ", "YEN">>) >>

\* <h1>TV</h1><b class_="sale-Price">50</b><p>tel 99999999 YEN ,,,YEN 100YEN</p>
Page100 == <<
  El("h1", "", "", <<"T", "V">>),
  El("b", "class_", "sale-Price", <<"5", "0">>),
  El("p", "", "", <<"t", "e", "l", " ", "9", "9", "9", "9", "9", "9", "9", "9",
                    " ", "YEN", " ", ",", ",", ",", "YEN", " ", "1", "0", "0", "YEN">>) >>

\* <h1>TV55</h1><span itemprop="price">99,999,999</span><p> 12YEN</p>
PageTooBig == <<
  El("h1", "", "", <<"T", "V", "5", "5">>),
  El("span", "itemprop", "price", <<"9", "9", ",", "9", "9", "9", ",", "9", "9", "9">>),
  El("p", "", "", <<" ", "1", "2", "YEN">>) >>

Pages == {Page1000, Page800, Page1200, Page100, PageTooBig}

\* what requests.get can produce: a transport error or timeout, or a status
\* with a body
\* requests.get raising (no connection, timeout), as a status
ConnectionError == 0

Responses ==
  {[status |-> ConnectionError, text |-> <<>>], [status |-> 404, text |-> Page1000]}
    \cup {[status |-> 200, text |-> page] : page \in Pages}

\* what requests.post to the webhook can produce
Answers == {ConnectionError, 204, 200, 500}

\* an exception leaving a function
Raised == [raised |-> TRUE]

(***************************************************************************)
(* check_price: the observation, or None; no exception leaves it           *)
(***************************************************************************)
check_price(url, response, now) ==
  IF response.status = ConnectionError THEN None
  ELSE IF response.status >= 400 THEN None
  ELSE LET current_price == extract_price(response.text)
           product_name == extract_product_name(response.text)
       IN IF current_price = NoPrice THEN None
          ELSE [url |-> url, price |-> current_price,
                product_name |-> product_name, timestamp |-> now]

(***************************************************************************)
(* send_discord_notification: whether requests.post was called, the value  *)
(* returned, and whether an exception left the function                    *)
(***************************************************************************)
\* send_discord_notification without the try/except around requests.post
send_discord_notification_no_except(webhook, answer) ==
  IF webhook = "" THEN [posted |-> FALSE, result |-> FALSE, raised |-> FALSE]
  ELSE IF answer = ConnectionError
       THEN [posted |-> TRUE, result |-> FALSE, raised |-> TRUE]
  ELSE IF answer = 204 THEN [posted |-> TRUE, result |-> TRUE, raised |-> FALSE]
  ELSE [posted |-> TRUE, result |-> FALSE, raised |-> FALSE]

send_discord_notification(webhook, answer) ==
  IF webhook = "" THEN [posted |-> FALSE, result |-> FALSE, raised |-> FALSE]
  ELSE IF answer = ConnectionError
       THEN [posted |-> TRUE, result |-> FALSE, raised |-> FALSE]
  ELSE IF answer = 204 THEN [posted |-> TRUE, result |-> TRUE, raised |-> FALSE]
  ELSE [posted |-> TRUE, result |-> FALSE, raised |-> FALSE]

(***************************************************************************)
(* previous_prices: a dict, as the sequence of its items in insertion      *)
(* order                                                                   *)
(***************************************************************************)
DictHas(d, k) == \E i \in 1..Len(d) : d[i].k = k

DictGet(d, k) == d[CHOOSE i \in 1..Len(d) : d[i].k = k].v

\* d = {k: v} in place of d[k] = v
DictSetOnly(d, k, v) == <<[k |-> k, v |-> v]>>

\* d[k] = v
DictSet(d, k, v) ==
  IF DictHas(d, k)
  THEN [i \in 1..Len(d) |-> IF d[i].k = k THEN [k |-> k, v |-> v] ELSE d[i]]
  ELSE Append(d, [k |-> k, v |-> v])

DictKeys(d) == {d[i].k : i \in 1..Len(d)}

(***************************************************************************)
(* json.dump and json.load.  The file's text is a sequence of tokens: the  *)
(* braces and one token per item, with the integer in decimal digits and   *)
(* the strings escaped.                                                    *)
(***************************************************************************)
\* a JSON string body: '"' and '\' get a backslash in front
RECURSIVE Escape(_)
Escape(s) ==
  IF s = <<>> THEN <<>>
  ELSE IF Head(s) \in {"\"", "\\"} THEN <<"\\", Head(s)>> \o Escape(Tail(s))
       ELSE <<Head(s)>> \o Escape(Tail(s))

\* a string body json.load rejects: a '"' without a backslash in front, or a
\* backslash with nothing after it
RECURSIVE BareQuote(_)
BareQuote(s) ==
  IF s = <<>> THEN FALSE
  ELSE IF Head(s) = "\\" /\ Len(s) >= 2 THEN BareQuote(Tail(Tail(s)))
       ELSE Head(s) \in {"\"", "\\"} \/ BareQuote(Tail(s))

RECURSIVE Unescape(_)
Unescape(s) ==
  IF s = <<>> THEN <<>>
  ELSE IF Head(s) = "\\" /\ Len(s) >= 2 THEN <<s[2]>> \o Unescape(Tail(Tail(s)))
       ELSE <<Head(s)>> \o Unescape(Tail(s))

\* an item written with its strings unescaped
DumpItemRaw(item) ==
  [t |-> "item", key |-> item.k, url |-> item.v.url, price |-> IntToDigits(item.v.price),
   product_name |-> item.v.product_name, timestamp |-> item.v.timestamp]

DumpItem(item) ==
  [t |-> "item", key |-> item.k, url |-> item.v.url, price |-> IntToDigits(item.v.price),
   product_name |-> Escape(item.v.product_name), timestamp |-> item.v.timestamp]

LoadItem(tok) ==
  [k |-> tok.key,
   v |-> [url |-> tok.url, price |-> DigitsToInt(tok.price),
          product_name |-> Unescape(tok.product_name), timestamp |-> tok.timestamp]]

\* json.dump(self.previous_prices, f)
json_dump(d) ==
  <<[t |-> "{"]>> \o [i \in 1..Len(d) |-> DumpItem(d[i])] \o <<[t |-> "}"]>>

\* json.load(f): the dict, or a JSONDecodeError for a text that is not one
\* whole object
json_load(text) ==
  IF /\ Len(text) >= 2
     /\ text[1].t = "{"
     /\ text[Len(text)].t = "}"
     /\ \A i \in 2..(Len(text) - 1) :
          text[i].t = "item" /\ ~BareQuote(text[i].product_name)
  THEN [raised |-> FALSE,
        value |-> [i \in 1..(Len(text) - 2) |-> LoadItem(text[i + 1])]]
  ELSE [raised |-> TRUE, value |-> <<>>]

\* price_data.json does not exist
NoFile == [exists |-> FALSE, text |-> <<>>]

\* price_data.json with the given text
FileWith(text) == [exists |-> TRUE, text |-> text]

load_previous_prices(f) ==
  IF f.exists
  THEN LET r == json_load(f.text) IN IF r.raised THEN <<>> ELSE r.value
  ELSE <<>>

(***************************************************************************)
(* Lines 158-160 and the percentage the message prints with one decimal,   *)
(* in tenths of a percent.                                                 *)
(***************************************************************************)
\* the difference taken the other way round
ChangeSwapped(current_price, previous_price) == previous_price - current_price

Change(current_price, previous_price) == current_price - previous_price

\* change / previous_price * 100 rounded to the nearest tenth, in tenths
ChangePercent(change, previous_price) ==
  (2000 * change + previous_price) \div (2 * previous_price)

IsPriceDrop(change) == change < 0

\* the branch taken when every observation of a known url is stored again
ClassifyStoreAlways(d, data) ==
  IF DictHas(d, data.url)
  THEN IF data.price # DictGet(d, data.url).price THEN "changed" ELSE "first_seen"
  ELSE "first_seen"

\* the branch taken when the prices are not compared
ClassifyNoCompare(d, data) ==
  IF DictHas(d, data.url) THEN "changed" ELSE "first_seen"

\* lines 155, 157, 168: the branch taken for an observation
Classify(d, data) ==
  IF DictHas(d, data.url)
  THEN IF data.price # DictGet(d, data.url).price THEN "changed" ELSE "unchanged"
  ELSE "first_seen"

(***************************************************************************)
(* The running monitor.                                                    *)
(***************************************************************************)
VARIABLES
  pc,               \* where the process is
  urls,             \* self.urls
  discord_webhook,  \* self.discord_webhook
  check_interval,   \* self.check_interval
  previous_prices,  \* self.previous_prices
  file,             \* the text of price_data.json, or NoFile
  cycle,            \* the local cycle of monitor()
  idx,              \* position of the for loop in self.urls
  current_data,     \* the local current_data of monitor()
  branch,           \* the branch of lines 155-171 taken for current_data
  message,          \* what line 158-162 computed for a changed price
  clock,            \* datetime.now()
  notifyCalls,      \* calls of notify() for current_data
  lastNotify,       \* arguments of the last call of notify()
  posts,            \* POSTs to the webhook in this process so far
  lastPost,         \* what the last POST to the webhook was for
  delivery,         \* what send_discord_notification returned for current_data
  slept,            \* the time.sleep() calls since the last requests.get
  fetched,          \* a requests.get was made by this process
  crashes,          \* number of crashes so far
  confirmed         \* the dict written by the last save_prices() that returned

vars == <<pc, urls, discord_webhook, check_interval, previous_prices, file, cycle,
          idx, current_data, branch, message, clock, notifyCalls, lastNotify,
          posts, lastPost, delivery, slept, fetched, crashes, confirmed>>

config == <<urls, discord_webhook, check_interval>>

history == <<crashes, confirmed>>

\* the values of MONITOR_URLS explored
UrlLists == {<<>>, <<"X", "Y">>}

\* the values of DISCORD_WEBHOOK explored
Webhooks == {"", "https://discord/hook"}

\* pc values of a live process
Running == {"start", "check", "compare", "notify", "store", "save_open",
            "save_dump", "sleep3", "interval"}

\* __init__ of a fresh installation: no price_data.json yet
Init ==
  /\ pc = "start"
  /\ urls \in UrlLists
  /\ discord_webhook \in Webhooks
  /\ check_interval = DefaultInterval
  /\ file = NoFile
  /\ previous_prices = load_previous_prices(NoFile)
  /\ cycle = 0
  /\ idx = 0
  /\ current_data = None
  /\ branch = "none"
  /\ message = None
  /\ clock = 0
  /\ notifyCalls = 0
  /\ lastNotify = None
  /\ posts = 0
  /\ lastPost = None
  /\ delivery = None
  /\ slept = <<>>
  /\ fetched = FALSE
  /\ crashes = 0
  /\ confirmed = <<>>

\* lines 131-147: monitor() up to the first pass of the for loop
MonitorStart ==
  /\ pc = "start"
  /\ IF urls = <<>>
     THEN /\ pc' = "returned"
          /\ UNCHANGED <<posts, lastPost, cycle, idx>>
     ELSE /\ \E answer \in Answers :
               LET r == send_discord_notification(discord_webhook, answer)
               IN IF discord_webhook # "" /\ r.posted
                  THEN posts' = posts + 1 /\ lastPost' = [kind |-> "startup"]
                  ELSE UNCHANGED <<posts, lastPost>>
          /\ cycle' = 1
          /\ idx' = 1
          /\ pc' = "check"
  /\ UNCHANGED <<config, previous_prices, file, current_data, branch, message,
                 clock, notifyCalls, lastNotify, delivery, slept, fetched, history>>

\* the for loop moves on: the next url, or lines 173-174 after the last one
NextUrl(i) == IF i < Len(urls) THEN [pc |-> "check", idx |-> i + 1]
              ELSE [pc |-> "interval", idx |-> i]

\* a `break` in place of the `continue`
ContinueBreak(i) == [pc |-> "interval", idx |-> i]

\* the `continue` of line 151
Continue(i) == NextUrl(i)

\* lines 149-151
CheckPrice ==
  /\ pc = "check"
  /\ clock < MaxClock
  /\ \E response \in Responses :
       LET r == check_price(urls[idx], response, clock + 1)
       IN /\ current_data' = r
          /\ IF r = Raised
             THEN pc' = "stopped" /\ idx' = idx
             ELSE IF r = None
                  THEN pc' = Continue(idx).pc /\ idx' = Continue(idx).idx
                  ELSE pc' = "compare" /\ idx' = idx
  /\ clock' = clock + 1
  /\ fetched' = TRUE
  /\ slept' = <<>>
  /\ notifyCalls' = 0
  /\ delivery' = None
  /\ branch' = "none"
  /\ message' = None
  /\ UNCHANGED <<config, previous_prices, file, cycle, lastNotify, posts,
                 lastPost, history>>

\* lines 152-162 and 166-169
Compare ==
  /\ pc = "compare"
  /\ LET url == current_data.url
         current_price == current_data.price
         b == Classify(previous_prices, current_data)
     IN /\ branch' = b
        /\ IF b = "changed"
           THEN LET previous_price == DictGet(previous_prices, url).price
                    change == Change(current_price, previous_price)
                IN /\ message' = [url |-> url,
                                  product_name |-> current_data.product_name,
                                  previous_price |-> previous_price,
                                  current_price |-> current_price,
                                  change |-> change,
                                  change_percent |-> ChangePercent(change, previous_price),
                                  is_price_drop |-> IsPriceDrop(change)]
                   /\ pc' = "notify"
           ELSE /\ message' = None
                /\ pc' = IF b = "unchanged" THEN "sleep3" ELSE "store"
  /\ UNCHANGED <<config, previous_prices, file, cycle, idx, current_data, clock,
                 notifyCalls, lastNotify, posts, lastPost, delivery, slept,
                 fetched, history>>

\* line 163: notify() and the send_discord_notification() it calls
Notify ==
  /\ pc = "notify"
  /\ notifyCalls' = notifyCalls + 1
  /\ lastNotify' = message
  /\ \E answer \in Answers :
       LET r == send_discord_notification(discord_webhook, answer)
       IN /\ IF r.posted
             THEN /\ posts' = posts + 1
                  /\ lastPost' = [kind |-> "change", url |-> message.url,
                                  previous_price |-> message.previous_price,
                                  current_price |-> message.current_price]
             ELSE UNCHANGED <<posts, lastPost>>
          /\ delivery' = r
          /\ pc' = IF r.raised THEN "stopped" ELSE "store"
  /\ UNCHANGED <<config, previous_prices, file, cycle, idx, current_data, branch,
                 message, clock, slept, fetched, history>>

\* lines 164 and 170
Store ==
  /\ pc = "store"
  /\ previous_prices' = DictSet(previous_prices, current_data.url, current_data)
  /\ pc' = "save_open"
  /\ UNCHANGED <<config, file, cycle, idx, current_data, branch, message, clock,
                 notifyCalls, lastNotify, posts, lastPost, delivery, slept,
                 fetched, history>>

\* line 32: open(..., 'w') creates or empties the file
SaveOpen ==
  /\ pc = "save_open"
  /\ file' = FileWith(<<>>)
  /\ pc' = "save_dump"
  /\ UNCHANGED <<config, previous_prices, cycle, idx, current_data, branch,
                 message, clock, notifyCalls, lastNotify, posts, lastPost,
                 delivery, slept, fetched, history>>

\* line 33 and the close of the with block
SaveDump ==
  /\ pc = "save_dump"
  /\ file' = FileWith(json_dump(previous_prices))
  /\ confirmed' = previous_prices
  /\ pc' = "sleep3"
  /\ UNCHANGED <<config, previous_prices, cycle, idx, current_data, branch,
                 message, clock, notifyCalls, lastNotify, posts, lastPost,
                 delivery, slept, fetched, crashes>>

\* line 172
Sleep3 ==
  /\ pc = "sleep3"
  /\ slept' = Append(slept, ShortDelay)
  /\ pc' = NextUrl(idx).pc
  /\ idx' = NextUrl(idx).idx
  /\ UNCHANGED <<config, previous_prices, file, cycle, current_data, branch,
                 message, clock, notifyCalls, lastNotify, posts, lastPost,
                 delivery, fetched, history>>

\* lines 173-174, then 146-148 of the next cycle
SleepInterval ==
  /\ pc = "interval"
  /\ slept' = Append(slept, check_interval)
  /\ cycle' = cycle + 1
  /\ idx' = 1
  /\ pc' = "check"
  /\ UNCHANGED <<config, previous_prices, file, current_data, branch, message,
                 clock, notifyCalls, lastNotify, posts, lastPost, delivery,
                 fetched, history>>

\* the strict prefixes of a text
Prefixes(text) == {SubSeq(text, 1, n) : n \in 0..(Len(text) - 1)}

\* the process is killed (or the machine goes down): memory is lost, and a
\* file being written by save_prices keeps only a part of the new text
Crash ==
  /\ pc \in Running
  /\ crashes < MaxCrashes
  /\ crashes' = crashes + 1
  /\ pc' = "down"
  /\ IF pc = "save_dump"
     THEN \E text \in Prefixes(json_dump(previous_prices)) : file' = FileWith(text)
     ELSE file' = file
  /\ previous_prices' = <<>>
  /\ cycle' = 0
  /\ idx' = 0
  /\ current_data' = None
  /\ branch' = "none"
  /\ message' = None
  /\ notifyCalls' = 0
  /\ lastNotify' = None
  /\ posts' = 0
  /\ lastPost' = None
  /\ delivery' = None
  /\ slept' = <<>>
  /\ fetched' = FALSE
  /\ UNCHANGED <<config, clock, confirmed>>

\* lines 180 and 11-20: the process is started again
Restart ==
  /\ pc = "down"
  /\ previous_prices' = load_previous_prices(file)
  /\ pc' = "start"
  /\ UNCHANGED <<config, file, cycle, idx, current_data, branch, message, clock,
                 notifyCalls, lastNotify, posts, lastPost, delivery, slept,
                 fetched, history>>

Next ==
  \/ MonitorStart
  \/ CheckPrice
  \/ Compare
  \/ Notify
  \/ Store
  \/ SaveOpen
  \/ SaveDump
  \/ Sleep3
  \/ SleepInterval
  \/ Crash
  \/ Restart

Spec == Init /\ [][Next]_vars

TypeOK ==
  /\ pc \in Running \cup {"down", "returned", "stopped"}
  /\ clock \in 0..MaxClock
  /\ current_data \notin {None, Raised} => InRange(current_data.price)

(***************************************************************************)
(* Properties.                                                             *)
(***************************************************************************)
Abs(n) == IF n < 0 THEN -n ELSE n

\* the url and the stored price the observation in current_data is compared to
ObsUrl == current_data.url

StoredPrice == DictGet(previous_prices, ObsUrl).price

\* the process was not killed in this step
Alive == pc' # "down"

\* the file holds what the dict holds
Persisted(f, d) == load_previous_prices(f) = d

\* C1: an observation whose price differs from the stored one takes the
\* changed branch, notify() is called exactly once for it with
\* delta = new - stored, percent = delta / stored * 100 (to the printed tenth)
\* and is_drop = (delta < 0), and the store then holds the new price; for
\* stored 1000 the observations 800 and 1200 give -200, -20.0, drop and
\* +200, +20.0, no drop.
C1_ChangeNotifiedAndStored ==
  [][/\ (pc = "compare" /\ Alive /\ DictHas(previous_prices, ObsUrl)
           /\ current_data.price # StoredPrice)
          => (pc' = "notify" /\ branch' = "changed" /\ notifyCalls' = 0)
     /\ (pc = "notify" /\ Alive) => (notifyCalls' = 1 /\ pc' = "store")
     /\ (pc = "store" /\ Alive /\ branch = "changed")
          => LET old == StoredPrice
                 new == current_data.price
             IN /\ old # new
                /\ notifyCalls = 1
                /\ lastNotify.url = ObsUrl
                /\ lastNotify.previous_price = old
                /\ lastNotify.current_price = new
                /\ lastNotify.change = new - old
                /\ 2 * Abs(lastNotify.change_percent * old - 1000 * (new - old)) <= old
                /\ lastNotify.is_price_drop = (new - old < 0)
                /\ (old = 1000 /\ new = 800)
                     => /\ lastNotify.is_price_drop
                        /\ lastNotify.change = -200
                        /\ lastNotify.change_percent = -200
                /\ (old = 1000 /\ new = 1200)
                     => /\ ~lastNotify.is_price_drop
                        /\ lastNotify.change = 200
                        /\ lastNotify.change_percent = 200
                /\ notifyCalls' = 1
                /\ DictGet(previous_prices', ObsUrl).price = new
    ]_vars

\* a drop from 1000 to 800 was notified once and stored
C1_Witness ==
  /\ pc = "save_open"
  /\ branch = "changed"
  /\ notifyCalls = 1
  /\ lastNotify.previous_price = 1000
  /\ lastNotify.current_price = 800
  /\ DictGet(previous_prices, ObsUrl).price = 800

\* the price of a url went back to the value it had before its last change
C1_FlipBack ==
  /\ pc = "notify"
  /\ lastNotify # None
  /\ lastNotify.url = message.url
  /\ lastNotify.previous_price = message.current_price

\* C2: an observation whose price equals the stored one takes the unchanged
\* branch, and from there to the next fetch the dict, the file and the
\* notifications stay as they were.
C2_UnchangedLeavesAll ==
  [][/\ (pc = "compare" /\ Alive /\ DictHas(previous_prices, ObsUrl)
           /\ current_data.price = StoredPrice)
          => (branch' = "unchanged" /\ pc' = "sleep3")
     /\ (branch' = "unchanged")
          => /\ previous_prices' = previous_prices
             /\ file' = file
             /\ posts' = posts
             /\ lastPost' = lastPost
             /\ lastNotify' = lastNotify
             /\ notifyCalls' = 0
    ]_vars

\* an equal price was observed and the loop has moved past it
C2_Witness ==
  /\ branch = "unchanged"
  /\ pc \in {"check", "interval"}
  /\ DictGet(previous_prices, ObsUrl).price = current_data.price
  /\ DictGet(previous_prices, ObsUrl).timestamp < current_data.timestamp
  /\ Persisted(file, previous_prices)

\* C3: an observation of a url without an entry takes the first-seen branch:
\* the dict gains the observation as that url's entry, the other entries stay,
\* the file is rewritten with it, and nothing is notified or posted.
C3_FirstSeenStored ==
  [][/\ (pc = "compare" /\ Alive /\ ~DictHas(previous_prices, ObsUrl))
          => (branch' = "first_seen" /\ pc' = "store")
     /\ (branch' = "first_seen")
          => /\ posts' = posts
             /\ lastNotify' = lastNotify
             /\ notifyCalls' = 0
             /\ \A u \in DictKeys(previous_prices) \ {current_data'.url} :
                  /\ DictHas(previous_prices', u)
                  /\ DictGet(previous_prices', u) = DictGet(previous_prices, u)
     /\ (pc = "store" /\ Alive /\ branch = "first_seen")
          => /\ ~DictHas(previous_prices, ObsUrl)
             /\ DictKeys(previous_prices') = DictKeys(previous_prices) \cup {ObsUrl}
             /\ DictGet(previous_prices', ObsUrl) = current_data
     /\ (pc = "save_dump" /\ Alive /\ branch = "first_seen")
          => /\ pc' = "sleep3"
             /\ Persisted(file', previous_prices')
             /\ DictGet(previous_prices', ObsUrl) = current_data
    ]_vars

\* a second url was seen for the first time and saved next to the first
C3_Witness ==
  /\ pc = "sleep3"
  /\ branch = "first_seen"
  /\ Len(previous_prices) = 2
  /\ DictGet(previous_prices, ObsUrl) = current_data
  /\ Persisted(file, previous_prices)
  /\ notifyCalls = 0

\* C4: a fetch that fails or finds no price leaves the dict, the file and
\* the notifications alone, raises nothing, and the loop goes on with the next
\* url of the same cycle (or, after the last url, with the interval sleep).
C4_FailureSkipsUrl ==
  [][(clock' # clock)
       => /\ current_data' # Raised
          /\ pc' # "stopped"
          /\ (current_data' = None)
               => /\ previous_prices' = previous_prices
                  /\ file' = file
                  /\ posts' = posts
                  /\ lastNotify' = lastNotify
                  /\ notifyCalls' = 0
                  /\ cycle' = cycle
                  /\ (idx < Len(urls)) => (pc' = "check" /\ idx' = idx + 1)
                  /\ (idx = Len(urls)) => (pc' = "interval")
    ]_vars

\* the first url of a cycle failed and the second is about to be fetched
C4_Witness ==
  /\ pc = "check"
  /\ idx = 2
  /\ fetched
  /\ current_data = None
  /\ slept = <<>>

\* what extract_price returns for the pages
ExtractedPrices == {extract_price(page) : page \in Pages}

\* C5: the dict never holds two items of one url, every stored price and
\* every observed price is an integer of 100..10000000, and extract_price
\* gives no number outside that range for any page.
C5_EntriesInRange ==
  /\ \A i, j \in 1..Len(previous_prices) :
       previous_prices[i].k = previous_prices[j].k => i = j
  /\ \A i \in 1..Len(previous_prices) :
       previous_prices[i].v.price \in Int
         /\ 100 <= previous_prices[i].v.price
         /\ previous_prices[i].v.price <= 10000000
  /\ current_data # None
       => (100 <= current_data.price /\ current_data.price <= 10000000)
  /\ \A price \in ExtractedPrices :
       price = NoPrice \/ (100 <= price /\ price <= 10000000)

\* two entries were loaded from the file at a restart
C5_Witness ==
  /\ pc = "start"
  /\ crashes > 0
  /\ Len(previous_prices) = 2
  /\ \E i \in 1..2 : previous_prices[i].v.price = 100

\* C6: whatever the webhook answers, notify() returns normally, the entry
\* of the url is then replaced by the observation, the file is rewritten with
\* it, and the loop goes on with the next url or the interval sleep.
C6_DeliveryFailureNotFatal ==
  [][/\ (pc = "notify" /\ Alive)
          => (pc' = "store" /\ ~delivery'.raised)
     /\ (pc = "store" /\ Alive /\ branch = "changed" /\ ~delivery.result)
          => (DictGet(previous_prices', ObsUrl) = current_data /\ pc' = "save_open")
     /\ (pc = "save_open" /\ Alive /\ branch = "changed" /\ ~delivery.result)
          => pc' = "save_dump"
     /\ (pc = "save_dump" /\ Alive /\ branch = "changed" /\ ~delivery.result)
          => /\ Persisted(file', previous_prices')
             /\ DictGet(previous_prices', ObsUrl) = current_data
             /\ pc' = "sleep3"
     /\ (pc = "sleep3" /\ Alive /\ branch = "changed" /\ ~delivery.result)
          => pc' \in {"check", "interval"}
    ]_vars

\* a POST to the webhook failed, the change is stored and saved, and the
\* loop has reached the next url
C6_Witness ==
  /\ pc = "check"
  /\ idx = 2
  /\ branch = "changed"
  /\ delivery # None
  /\ delivery.posted
  /\ ~delivery.result
  /\ DictGet(previous_prices, ObsUrl) = current_data
  /\ Persisted(file, previous_prices)

\* C7: at a restart after a crash, every entry written by a save_prices()
\* that had returned is in the loaded dict with the same price.
C7_CrashKeepsSaved ==
  (pc = "start" /\ crashes > 0)
    => \A u \in DictKeys(confirmed) :
         /\ DictHas(previous_prices, u)
         /\ DictGet(previous_prices, u).price = DictGet(confirmed, u).price

\* C8 as stated: a POST to the webhook is only made for a changed price.
C8_PostOnlyForChange ==
  [][(posts' > posts)
       => /\ pc = "notify"
          /\ branch = "changed"
          /\ current_data.price # StoredPrice
    ]_vars

\* C8 as amended: a POST to the webhook is either the one announcement
\* monitor() makes before its first cycle (webhook set, urls not empty), or is
\* made for an observation whose price differs from the stored price of its url.
C8_PostForStartOrChange ==
  [][(posts' > posts)
       => /\ posts' = posts + 1
          /\ \/ /\ pc = "start"
                /\ posts = 0
                /\ ~fetched
                /\ urls # <<>>
                /\ discord_webhook # ""
             \/ /\ pc = "notify"
                /\ branch = "changed"
                /\ DictHas(previous_prices, ObsUrl)
                /\ current_data.price # StoredPrice
                /\ lastPost'.url = ObsUrl
    ]_vars

\* the announcement and a POST for a changed price were both made
C8_Witness ==
  /\ posts = 2
  /\ lastPost.kind = "change"
  /\ lastPost.previous_price # lastPost.current_price

\* C9: json.load of what json.dump writes for the dict gives back the dict,
\* and after save_prices() the file loads as the dict in memory.
C9_RoundTrip ==
  /\ json_load(json_dump(previous_prices)) = [raised |-> FALSE, value |-> previous_prices]
  /\ load_previous_prices(FileWith(json_dump(previous_prices))) = previous_prices
  /\ (pc = "sleep3" /\ branch \in {"changed", "first_seen"})
       => load_previous_prices(file) = previous_prices

\* a dict of two entries, one with a '"' in its name, came back from the file
C9_Witness ==
  /\ pc = "start"
  /\ crashes > 0
  /\ Len(previous_prices) = 2
  /\ previous_prices = confirmed
  /\ \E i \in 1..2 : "\"" \in SeqRange(previous_prices[i].v.product_name)

\* C10: a fetch that follows another fetch of the same process comes after
\* a sleep: of 3 when it is a later url of the cycle, of the interval when it
\* is the first url of the next cycle.
C10_SleepBeforeFetch ==
  (pc = "check" /\ fetched)
    => /\ slept # <<>>
       /\ (idx > 1) => (ShortDelay \in SeqRange(slept))
       /\ (idx = 1) => (check_interval \in SeqRange(slept))

====
